---- MODULE Spec2Model ----
(***************************************************************************)
(* Model of scripts/make_datastore_grpc.py: one run of main().             *)
(*                                                                         *)
(* A line of text is a sequence of tokens.  A token is a character, or a   *)
(* literal of the script taken whole: MESSAGE_SNIPPET starts with a blank  *)
(* and ends with a parenthesis, so two occurrences never overlap and       *)
(* str.split and the `in` test see it as one indivisible unit.  A file's   *)
(* content is the concatenation of what was written to it.                 *)
(*                                                                         *)
(* The proto compiler is the environment.  What it generates for the one   *)
(* fixed .proto file, with and without the gRPC plugin, is chosen in Init  *)
(* (grpc_out, python_out); whether one invocation succeeds, and with       *)
(* which status it fails, is chosen at each invocation.                    *)
(***************************************************************************)
EXTENDS Integers, Sequences, FiniteSets, TLC

VARIABLES
    pc,                   \* position of the run in main() and its callees
    ret,                  \* caller of get_pb2_contents_without_grpc
    grpc_out,             \* environment: lines protoc generates with the plugin
    python_out,           \* environment: lines protoc generates without it
    made,                 \* number of tempfile.mkdtemp() calls so far
    temp_dirs,            \* temporary directories that exist
    temp_dir,             \* local temp_dir of the running get_pb2_contents_*
    generated,            \* the file at generated_path inside temp_dir
    return_code,          \* local return_code of the running get_pb2_contents_*
    raised,               \* exception in flight ("" when none)
    calls,                \* the subprocess.call invocations made so far
    grpc_contents,        \* get_pb2_grpc_only: grpc_contents
    non_grpc_contents,    \* non_grpc_contents of the running caller
    pos,                  \* get_pb2_grpc_only: lines of grpc_contents iterated
    curr_non_grpc_line,   \* get_pb2_grpc_only: curr_non_grpc_line
    grpc_only_lines,      \* get_pb2_grpc_only / main: grpc_only_lines
    names,                \* main: the list returned by get_pb2_message_types
    name_pos,             \* main: names iterated by the import loop
    file,                 \* GRPC_ONLY_FILE on disk
    file_before,          \* GRPC_ONLY_FILE as it was when the run started
    exit_status           \* <<>> while running, <<status>> once terminated

vars == <<pc, ret, grpc_out, python_out, made, temp_dirs, temp_dir, generated,
          return_code, raised, calls, grpc_contents, non_grpc_contents, pos,
          curr_non_grpc_line, grpc_only_lines, names, name_pos, file,
          file_before, exit_status>>

-----------------------------------------------------------------------------
(* Bounds *)

\* most lines in one generated file
MaxLines == 2

\* the compiler's exit statuses are 0 .. MaxStatus
MaxStatus == 2

-----------------------------------------------------------------------------
(* Text *)

MESSAGE_SNIPPET == " = _reflection.GeneratedProtocolMessageType("

BEGIN_LINE == <<"# BEGIN: Imports from datastore_pb2\n">>

END_LINE == <<"#   END: Imports from datastore_pb2\n">>

\* IMPORT_TEMPLATE % (name,)
IMPORT_TEMPLATE(name) ==
    <<"from google.cloud.datastore._generated.datastore_pb2 import ">> \o name \o <<"\n">>

\* the lines a generated file is made of
GeneratedLines ==
    { <<"x", "\n">>,
      <<"F", MESSAGE_SNIPPET, "\n">>,
      <<"B", MESSAGE_SNIPPET, "\n">>,
      <<"B", "F", MESSAGE_SNIPPET, "\n">>,
      <<"B", MESSAGE_SNIPPET, MESSAGE_SNIPPET, "\n">> }

SeqsUpTo(S, n) == UNION { [1..k -> S] : k \in 0..n }

\* the generated files considered
Outputs == SeqsUpTo(GeneratedLines, MaxLines)

\* what GRPC_ONLY_FILE may hold before the run
OldContent == <<"# written by an earlier run\n">>

NoFile == [exists |-> FALSE, data |-> <<>>]

FileOf(data) == [exists |-> TRUE, data |-> data]

\* ''.join(lines)
RECURSIVE Join(_)
Join(lines) ==
    IF lines = <<>> THEN <<>> ELSE Head(lines) \o Join(Tail(lines))

\* ord() of a character; a literal compares by its first character
Ord(c) ==
    CASE c = "\n" -> 10
      [] c = "B" -> 66
      [] c = "F" -> 70
      [] c = "x" -> 120
      [] OTHER -> 32

\* a <= b for Python 2 byte strings
RECURSIVE StrLeq(_, _)
StrLeq(a, b) ==
    IF a = <<>> THEN TRUE
    ELSE IF b = <<>> THEN FALSE
    ELSE IF Ord(Head(a)) < Ord(Head(b)) THEN TRUE
    ELSE IF Ord(Head(a)) > Ord(Head(b)) THEN FALSE
    ELSE StrLeq(Tail(a), Tail(b))

\* MESSAGE_SNIPPET in line
Contains(line) == \E i \in 1..Len(line) : line[i] = MESSAGE_SNIPPET

\* line.split(MESSAGE_SNIPPET): the parts between the occurrences
RECURSIVE Split(_)
Split(line) ==
    IF ~Contains(line) THEN <<line>>
    ELSE LET i == CHOOSE k \in 1..Len(line) :
                      /\ line[k] = MESSAGE_SNIPPET
                      /\ \A j \in 1..(k - 1) : line[j] # MESSAGE_SNIPPET
         IN  <<SubSeq(line, 1, i - 1)>> \o Split(SubSeq(line, i + 1, Len(line)))

\* insert s into the sorted list l, after the elements equal to it
RECURSIVE Insert(_, _)
Insert(s, l) ==
    IF l = <<>> THEN <<s>>
    ELSE IF StrLeq(Head(l), s) THEN <<Head(l)>> \o Insert(s, Tail(l))
    ELSE <<s>> \o l

NotSorted(l) == l

\* sorted(l)
RECURSIVE Sorted(_)
Sorted(l) ==
    IF l = <<>> THEN <<>>
    ELSE Insert(l[Len(l)], Sorted(SubSeq(l, 1, Len(l) - 1)))

-----------------------------------------------------------------------------
(* The run *)

Init ==
    /\ pc = "with_mkdtemp"
    /\ ret = ""
    /\ grpc_out \in Outputs
    /\ python_out \in Outputs
    /\ made = 0
    /\ temp_dirs = {}
    /\ temp_dir = 0
    /\ generated = NoFile
    /\ return_code = 0
    /\ raised = ""
    /\ calls = <<>>
    /\ grpc_contents = <<>>
    /\ non_grpc_contents = <<>>
    /\ pos = 0
    /\ curr_non_grpc_line = 0
    /\ grpc_only_lines = <<>>
    /\ names = <<>>
    /\ name_pos = 0
    /\ file \in {NoFile, FileOf(OldContent)}
    /\ file_before = file
    /\ exit_status = <<>>

StatusOfFailure(exc, code) == IF exc = "" THEN 0 ELSE 1

\* the process's exit status: main() returned, sys.exit(code), or a traceback
StatusOf(exc, code) ==
    IF exc = "" THEN 0 ELSE IF exc = "SystemExit" THEN code ELSE 1

\* the process ends; an exception leaving main() closes file_obj on its way
Terminate(exc, code) ==
    /\ pc' = "terminated"
    /\ exit_status' = <<StatusOf(exc, code)>>

MkdtempFixedName ==
    /\ made' = made + 1
    /\ temp_dir' = 1
    /\ temp_dirs' = temp_dirs \cup {1}

\* tempfile.mkdtemp(): a directory that did not exist before
Mkdtemp ==
    /\ made' = made + 1
    /\ temp_dir' = made + 1
    /\ temp_dirs' = temp_dirs \cup {made + 1}

\* subprocess.call([... protoc ...]) writing into temp_dir: the status it returns
\* and the file it leaves at generated_path (none when it fails; a successful
\* run may leave none either)
Protoc(plugin, out) ==
    \E code \in 0..MaxStatus :
        /\ return_code' = code
        /\ calls' = Append(calls, [plugin |-> plugin, dir |-> temp_dir, code |-> code])
        /\ generated' \in (IF code = 0 THEN {FileOf(out), NoFile} ELSE {NoFile})

RmtreeOnReturn(dirs, d) == IF raised = "" THEN dirs \ {d} ELSE dirs

\* shutil.rmtree(temp_dir, ignore_errors=True)
Rmtree(dirs, d) == dirs \ {d}

(* get_pb2_contents_with_grpc *)

WithGrpc_Mkdtemp ==
    /\ pc = "with_mkdtemp"
    /\ Mkdtemp
    /\ pc' = "with_call"
    /\ UNCHANGED <<ret, grpc_out, python_out, generated, return_code, raised,
                   calls, grpc_contents, non_grpc_contents, pos,
                   curr_non_grpc_line, grpc_only_lines, names, name_pos, file,
                   file_before, exit_status>>

WithGrpc_Call ==
    /\ pc = "with_call"
    /\ Protoc(TRUE, grpc_out)
    /\ pc' = "with_read"
    /\ UNCHANGED <<ret, grpc_out, python_out, made, temp_dirs, temp_dir, raised,
                   grpc_contents, non_grpc_contents, pos, curr_non_grpc_line,
                   grpc_only_lines, names, name_pos, file, file_before,
                   exit_status>>

WithGrpc_Read ==
    /\ pc = "with_read"
    /\ IF return_code # 0
         THEN raised' = "SystemExit" /\ UNCHANGED grpc_contents
         ELSE IF ~generated.exists
                THEN raised' = "IOError" /\ UNCHANGED grpc_contents
                ELSE grpc_contents' = generated.data /\ UNCHANGED raised
    /\ pc' = "with_finally"
    /\ UNCHANGED <<ret, grpc_out, python_out, made, temp_dirs, temp_dir,
                   generated, return_code, calls, non_grpc_contents, pos,
                   curr_non_grpc_line, grpc_only_lines, names, name_pos, file,
                   file_before, exit_status>>

WithGrpc_Finally ==
    /\ pc = "with_finally"
    /\ temp_dirs' = Rmtree(temp_dirs, temp_dir)
    /\ generated' = NoFile
    /\ IF raised = ""
         THEN pc' = "without_mkdtemp" /\ ret' = "get_pb2_grpc_only"
              /\ UNCHANGED exit_status
         ELSE Terminate(raised, return_code) /\ UNCHANGED ret
    /\ UNCHANGED <<grpc_out, python_out, made, temp_dir, return_code, raised,
                   calls, grpc_contents, non_grpc_contents, pos,
                   curr_non_grpc_line, grpc_only_lines, names, name_pos, file,
                   file_before>>

(* get_pb2_contents_without_grpc *)

WithoutGrpc_Mkdtemp ==
    /\ pc = "without_mkdtemp"
    /\ Mkdtemp
    /\ pc' = "without_call"
    /\ UNCHANGED <<ret, grpc_out, python_out, generated, return_code, raised,
                   calls, grpc_contents, non_grpc_contents, pos,
                   curr_non_grpc_line, grpc_only_lines, names, name_pos, file,
                   file_before, exit_status>>

WithoutGrpc_Call ==
    /\ pc = "without_call"
    /\ Protoc(FALSE, python_out)
    /\ pc' = "without_read"
    /\ UNCHANGED <<ret, grpc_out, python_out, made, temp_dirs, temp_dir, raised,
                   grpc_contents, non_grpc_contents, pos, curr_non_grpc_line,
                   grpc_only_lines, names, name_pos, file, file_before,
                   exit_status>>

WithoutGrpc_Read ==
    /\ pc = "without_read"
    /\ IF return_code # 0
         THEN raised' = "SystemExit" /\ UNCHANGED non_grpc_contents
         ELSE IF ~generated.exists
                THEN raised' = "IOError" /\ UNCHANGED non_grpc_contents
                ELSE non_grpc_contents' = generated.data /\ UNCHANGED raised
    /\ pc' = "without_finally"
    /\ UNCHANGED <<ret, grpc_out, python_out, made, temp_dirs, temp_dir,
                   generated, return_code, calls, grpc_contents, pos,
                   curr_non_grpc_line, grpc_only_lines, names, name_pos, file,
                   file_before, exit_status>>

\* the finally clause, then back to the caller: the loop of get_pb2_grpc_only
\* or the loop of get_pb2_message_types
WithoutGrpc_Finally ==
    /\ pc = "without_finally"
    /\ temp_dirs' = Rmtree(temp_dirs, temp_dir)
    /\ generated' = NoFile
    /\ IF raised = ""
         THEN /\ pc' = (IF ret = "get_pb2_grpc_only" THEN "align" ELSE "extract")
              /\ UNCHANGED exit_status
         ELSE Terminate(raised, return_code)
    /\ UNCHANGED <<ret, grpc_out, python_out, made, temp_dir, return_code, raised,
                   calls, grpc_contents, non_grpc_contents, pos,
                   curr_non_grpc_line, grpc_only_lines, names, name_pos, file,
                   file_before>>

(* get_pb2_grpc_only *)

MatchesAnyLine(line, cursor) == TRUE

MatchesFirstLine(line, cursor) == line = non_grpc_contents[1]

MatchesNextLine(line, cursor) ==
    /\ cursor + 2 <= Len(non_grpc_contents)
    /\ line = non_grpc_contents[cursor + 2]

\* line == non_grpc_contents[curr_non_grpc_line]
Matches(line, cursor) == line = non_grpc_contents[cursor + 1]

\* one iteration of `for line in grpc_contents`; the subscript raises
\* IndexError when the cursor is past the last line of non_grpc_contents
GrpcOnly_Step ==
    /\ pc = "align"
    /\ pos < Len(grpc_contents)
    /\ LET line == grpc_contents[pos + 1] IN
         IF curr_non_grpc_line >= Len(non_grpc_contents)
           THEN /\ raised' = "IndexError"
                /\ Terminate("IndexError", return_code)
                /\ UNCHANGED <<pos, curr_non_grpc_line, grpc_only_lines>>
           ELSE /\ IF Matches(line, curr_non_grpc_line)
                     THEN /\ curr_non_grpc_line' = curr_non_grpc_line + 1
                          /\ UNCHANGED grpc_only_lines
                     ELSE /\ grpc_only_lines' = Append(grpc_only_lines, line)
                          /\ UNCHANGED curr_non_grpc_line
                /\ pos' = pos + 1
                /\ UNCHANGED <<pc, raised, exit_status>>
    /\ UNCHANGED <<ret, grpc_out, python_out, made, temp_dirs, temp_dir,
                   generated, return_code, calls, grpc_contents,
                   non_grpc_contents, names, name_pos, file, file_before>>

\* return grpc_only_lines: the other locals go out of scope
GrpcOnly_Return ==
    /\ pc = "align"
    /\ pos = Len(grpc_contents)
    /\ pc' = "open"
    /\ grpc_contents' = <<>>
    /\ non_grpc_contents' = <<>>
    /\ pos' = 0
    /\ curr_non_grpc_line' = 0
    /\ UNCHANGED <<ret, grpc_out, python_out, made, temp_dirs, temp_dir,
                   generated, return_code, raised, calls, grpc_only_lines,
                   names, name_pos, file, file_before, exit_status>>

(* get_pb2_message_types *)

\* the names appended to result, in the order of the lines
RECURSIVE Result(_)
Result(lines) ==
    IF lines = <<>> THEN <<>>
    ELSE IF Contains(Head(lines))
           THEN <<Split(Head(lines))[1]>> \o Result(Tail(lines))
           ELSE Result(Tail(lines))

\* `name, _ = line.split(MESSAGE_SNIPPET)` raises ValueError unless the split
\* gives two parts
Unpacks(lines) ==
    \A i \in 1..Len(lines) : Contains(lines[i]) => Len(Split(lines[i])) = 2

MessageTypes_Extract ==
    /\ pc = "extract"
    /\ IF Unpacks(non_grpc_contents)
         THEN /\ names' = Sorted(Result(non_grpc_contents))
              /\ pc' = "write_imports"
              /\ UNCHANGED <<raised, exit_status>>
         ELSE /\ raised' = "ValueError"
              /\ Terminate("ValueError", return_code)
              /\ UNCHANGED names
    /\ UNCHANGED <<ret, grpc_out, python_out, made, temp_dirs, temp_dir,
                   generated, return_code, calls, grpc_contents,
                   non_grpc_contents, pos, curr_non_grpc_line, grpc_only_lines,
                   name_pos, file, file_before>>

(* main *)

\* file_obj.write(text)
Write(f, text) == FileOf(f.data \o text)

Main_OpenAppend ==
    /\ pc = "open"
    /\ file' = FileOf(file.data)
    /\ pc' = "write_header"
    /\ UNCHANGED <<ret, grpc_out, python_out, made, temp_dirs, temp_dir,
                   generated, return_code, raised, calls, grpc_contents,
                   non_grpc_contents, pos, curr_non_grpc_line, grpc_only_lines,
                   names, name_pos, file_before, exit_status>>

\* open(GRPC_ONLY_FILE, 'wb'): created or truncated
Main_Open ==
    /\ pc = "open"
    /\ file' = FileOf(<<>>)
    /\ pc' = "write_header"
    /\ UNCHANGED <<ret, grpc_out, python_out, made, temp_dirs, temp_dir,
                   generated, return_code, raised, calls, grpc_contents,
                   non_grpc_contents, pos, curr_non_grpc_line, grpc_only_lines,
                   names, name_pos, file_before, exit_status>>

\* the header is written, then get_pb2_message_types() is called
Main_WriteHeader ==
    /\ pc = "write_header"
    /\ file' = Write(file, BEGIN_LINE)
    /\ pc' = "without_mkdtemp"
    /\ ret' = "get_pb2_message_types"
    /\ UNCHANGED <<grpc_out, python_out, made, temp_dirs, temp_dir, generated,
                   return_code, raised, calls, grpc_contents,
                   non_grpc_contents, pos, curr_non_grpc_line, grpc_only_lines,
                   names, name_pos, file_before, exit_status>>

\* one iteration of `for name in get_pb2_message_types()`
Main_WriteImport ==
    /\ pc = "write_imports"
    /\ name_pos < Len(names)
    /\ file' = Write(file, IMPORT_TEMPLATE(names[name_pos + 1]))
    /\ name_pos' = name_pos + 1
    /\ UNCHANGED <<pc, ret, grpc_out, python_out, made, temp_dirs, temp_dir,
                   generated, return_code, raised, calls, grpc_contents,
                   non_grpc_contents, pos, curr_non_grpc_line, grpc_only_lines,
                   names, file_before, exit_status>>

Main_WriteFooter ==
    /\ pc = "write_imports"
    /\ name_pos = Len(names)
    /\ file' = Write(file, END_LINE)
    /\ pc' = "write_lines"
    /\ UNCHANGED <<ret, grpc_out, python_out, made, temp_dirs, temp_dir,
                   generated, return_code, raised, calls, grpc_contents,
                   non_grpc_contents, pos, curr_non_grpc_line, grpc_only_lines,
                   names, name_pos, file_before, exit_status>>

\* file_obj.write(''.join(grpc_only_lines)); main() returns
Main_WriteLines ==
    /\ pc = "write_lines"
    /\ file' = Write(file, Join(grpc_only_lines))
    /\ Terminate("", return_code)
    /\ UNCHANGED <<ret, grpc_out, python_out, made, temp_dirs, temp_dir,
                   generated, return_code, raised, calls, grpc_contents,
                   non_grpc_contents, pos, curr_non_grpc_line, grpc_only_lines,
                   names, name_pos, file_before>>

Next ==
    \/ WithGrpc_Mkdtemp
    \/ WithGrpc_Call
    \/ WithGrpc_Read
    \/ WithGrpc_Finally
    \/ WithoutGrpc_Mkdtemp
    \/ WithoutGrpc_Call
    \/ WithoutGrpc_Read
    \/ WithoutGrpc_Finally
    \/ GrpcOnly_Step
    \/ GrpcOnly_Return
    \/ MessageTypes_Extract
    \/ Main_Open
    \/ Main_WriteHeader
    \/ Main_WriteImport
    \/ Main_WriteFooter
    \/ Main_WriteLines

Spec == Init /\ [][Next]_vars

-----------------------------------------------------------------------------
(* Vocabulary of the properties *)

\* main() returned
Completed == pc = "terminated" /\ raised = ""

\* the run ended in sys.exit(return_code)
Aborted == pc = "terminated" /\ raised = "SystemExit"

\* the alignment pass is running, has finished its loop, or has just raised
InAlign == pc = "align" \/ (pc = "terminated" /\ raised = "IndexError")

\* the loop of the alignment pass has run to its end
AlignDone == pc = "align" /\ pos = Len(grpc_contents)

\* get_pb2_message_types has returned to main()
TypesReturned == pc \in {"write_imports", "write_lines"} \/ Completed

\* the elements of a at the indices in I, in order
RECURSIVE Pick(_, _)
Pick(a, I) ==
    IF a = <<>> THEN <<>>
    ELSE Pick(SubSeq(a, 1, Len(a) - 1), I)
             \o (IF Len(a) \in I THEN <<a[Len(a)]>> ELSE <<>>)

\* b is a in-order subsequence of a
IsSubsequence(b, a) == \E I \in SUBSET (1..Len(a)) : Pick(a, I) = b

\* a is b and c interleaved, each in its own order
IsMerge(a, b, c) ==
    \E I \in SUBSET (1..Len(a)) :
        Pick(a, I) = b /\ Pick(a, (1..Len(a)) \ I) = c

\* the texts of ts one after the other
RECURSIVE Concat(_)
Concat(ts) ==
    IF ts = <<>> THEN <<>>
    ELSE Concat(SubSeq(ts, 1, Len(ts) - 1)) \o ts[Len(ts)]

\* the import statements for ns, one per name
ImportLines(ns) ==
    Concat([i \in 1..Len(ns) |->
               <<"from google.cloud.datastore._generated.datastore_pb2 import ">>
                   \o ns[i] \o <<"\n">>])

\* lexicographic order of byte strings, by the first difference
LexLeq(a, b) ==
    \/ Len(a) <= Len(b) /\ \A i \in 1..Len(a) : a[i] = b[i]
    \/ \E k \in 1..Len(a) :
           /\ k <= Len(b)
           /\ \A i \in 1..(k - 1) : a[i] = b[i]
           /\ Ord(a[k]) < Ord(b[k])

\* the positions of the marker in line
Markers(line) == {i \in 1..Len(line) : line[i] = MESSAGE_SNIPPET}

\* the text of line to the left of its first marker
LeftOf(line) ==
    SubSeq(line, 1, (CHOOSE i \in Markers(line) : \A j \in Markers(line) : i <= j) - 1)

Occurrences(l, x) == Cardinality({i \in 1..Len(l) : l[i] = x})

-----------------------------------------------------------------------------
(* Claims *)

\* C1: a run that ends because a compiler invocation returned non-zero leaves
\* GRPC_ONLY_FILE as it was before the run: not created, not truncated, no
\* partial header.
C1_FailedCompilerLeavesFile == Aborted => file = file_before

\* C2: when non_grpc_contents is an in-order subsequence of grpc_contents, the
\* alignment pass does not raise, and at the end of its loop it has recorded
\* len(A) - len(B) lines, which are the lines of A left over by B, in order.
C2_AlignsEverySubsequence ==
    (InAlign /\ IsSubsequence(non_grpc_contents, grpc_contents)) =>
        /\ raised # "IndexError"
        /\ AlignDone =>
              /\ Len(grpc_only_lines) = Len(grpc_contents) - Len(non_grpc_contents)
              /\ IsMerge(grpc_contents, non_grpc_contents, grpc_only_lines)

C4_TempDirsRemoved ==
    /\ temp_dirs \subseteq {temp_dir}
    /\ temp_dirs # {} =>
          pc \in {"with_call", "with_read", "with_finally",
                  "without_call", "without_read", "without_finally"}
    /\ pc = "terminated" => temp_dirs = {}

C4_Witness ==
    /\ pc = "terminated"
    /\ raised = "IOError"
    /\ made = 3
    /\ temp_dirs = {}

\* C5: when a compiler invocation returns non-zero the program exits with that
\* status; it is the status of the first invocation that failed, and from the
\* moment it is returned no invocation, diff step or write step takes place.
C5_AbortsWithSubprocessStatus ==
    /\ [](Aborted =>
            /\ calls # <<>>
            /\ calls[Len(calls)].code # 0
            /\ exit_status = <<calls[Len(calls)].code>>
            /\ \A i \in 1..(Len(calls) - 1) : calls[i].code = 0)
    /\ [][return_code # 0 =>
            /\ calls' = calls
            /\ made' = made
            /\ file' = file
            /\ pos' = pos
            /\ grpc_only_lines' = grpc_only_lines
            /\ names' = names
            /\ pc' \in {"with_finally", "without_finally", "terminated"}]_vars

C5_Witness ==
    /\ Aborted
    /\ Len(calls) = 3
    /\ exit_status = <<2>>

\* C6 as stated: when the two generated files are identical, no line is
\* gRPC-only and the file written holds the header and the footer only, with no
\* import line.
C6_IdenticalOutputsNoImports ==
    (Completed /\ grpc_out = python_out) =>
        /\ grpc_only_lines = <<>>
        /\ file = FileOf(BEGIN_LINE \o END_LINE)

\* C6 amended: when the two generated files are identical, the alignment pass
\* does not raise and records no gRPC-only line, and the file written holds the
\* header, one import line per marker line of the without-plugin output, and
\* the footer, nothing after it; it has no import line exactly when that
\* output has no marker line.
C6_IdenticalOutputsNoGrpcLines ==
    (grpc_out = python_out) =>
        /\ raised # "IndexError"
        /\ (AlignDone \/ Completed) => grpc_only_lines = <<>>
        /\ Completed =>
              /\ file = FileOf(BEGIN_LINE \o ImportLines(names) \o END_LINE)
              /\ Len(names) = Cardinality({i \in 1..Len(python_out) :
                                              Markers(python_out[i]) # {}})

C6_Witness ==
    /\ Completed
    /\ grpc_out = python_out
    /\ Len(names) = 2
    /\ file # FileOf(BEGIN_LINE \o END_LINE)

\* C7: after a run that completes, the file is the header, then one import line
\* per name returned by get_pb2_message_types in the order returned, then the
\* footer, then the gRPC-only lines in order, and nothing else.
C7_FileWritten ==
    Completed =>
        file = FileOf(BEGIN_LINE \o ImportLines(names) \o END_LINE
                          \o Concat(grpc_only_lines))

C7_Witness ==
    /\ Completed
    /\ file_before = FileOf(OldContent)
    /\ Len(names) = 2
    /\ grpc_only_lines # <<>>

\* C8: the list get_pb2_message_types returns is in lexicographic order and
\* holds, once per line of the without-plugin output that has the marker, the
\* text left of the marker: as many names as marker lines, each name as often
\* as it has lines, every such line having the marker exactly once.
C8_SortedNames ==
    TypesReturned =>
        /\ \A i \in 1..(Len(names) - 1) : LexLeq(names[i], names[i + 1])
        /\ \A i \in 1..Len(non_grpc_contents) :
               Cardinality(Markers(non_grpc_contents[i])) <= 1
        /\ Len(names) = Cardinality({i \in 1..Len(non_grpc_contents) :
                                        Markers(non_grpc_contents[i]) # {}})
        /\ \A i \in 1..Len(non_grpc_contents) :
               Markers(non_grpc_contents[i]) # {} =>
                   Occurrences(names, LeftOf(non_grpc_contents[i]))
                       = Cardinality({j \in 1..Len(non_grpc_contents) :
                             /\ Markers(non_grpc_contents[j]) # {}
                             /\ LeftOf(non_grpc_contents[j])
                                    = LeftOf(non_grpc_contents[i])})

C8_Witness ==
    /\ TypesReturned
    /\ Len(non_grpc_contents) = 2
    /\ Len(names) = 2
    /\ names[1] # names[2]
    /\ LeftOf(non_grpc_contents[1]) = names[2]

\* C9: when non_grpc_contents is not an in-order subsequence of grpc_contents,
\* the alignment pass never raises: at every step its cursor is a valid index
\* of non_grpc_contents, so the loop runs to its end.
C9_NoFaultOffSubsequence ==
    (InAlign /\ ~IsSubsequence(non_grpc_contents, grpc_contents)) =>
        /\ pc = "align"
        /\ curr_non_grpc_line < Len(non_grpc_contents)

C9_Witness ==
    /\ AlignDone
    /\ ~IsSubsequence(non_grpc_contents, grpc_contents)
    /\ curr_non_grpc_line > 0
    /\ grpc_only_lines # <<>>

\* C10: in the alignment pass, after each line processed, the recorded lines
\* and the cursor add up to the lines processed, the recorded lines are an
\* in-order subsequence of the processed prefix, that prefix is the recorded
\* lines interleaved with the lines of non_grpc_contents before the cursor,
\* and no step decreases the cursor.
C10_LoopInvariant ==
    /\ [](InAlign =>
            /\ Len(grpc_only_lines) + curr_non_grpc_line = pos
            /\ pos <= Len(grpc_contents)
            /\ curr_non_grpc_line <= Len(non_grpc_contents)
            /\ IsSubsequence(grpc_only_lines, SubSeq(grpc_contents, 1, pos))
            /\ IsMerge(SubSeq(grpc_contents, 1, pos),
                       SubSeq(non_grpc_contents, 1, curr_non_grpc_line),
                       grpc_only_lines))
    /\ [][(pc = "align" /\ pc' # "open") =>
            /\ curr_non_grpc_line' >= curr_non_grpc_line
            /\ pos' >= pos]_vars

C10_Witness ==
    /\ pc = "align"
    /\ pos = 2
    /\ curr_non_grpc_line = 1
    /\ Len(grpc_only_lines) = 1
    /\ grpc_only_lines[1] = grpc_contents[1]

====
